---- MODULE Spec2Model ----
(***************************************************************************)
(* Model of the chat backend's admission control and conversation store:   *)
(*   api/middleware/rate_limit.py  (check_rate_limit, rate_limit_middleware)*)
(*   api/redis_client.py           (conversation store, record codec)      *)
(*                                                                         *)
(* Time is the whole-second clock the limiter reads with int(time.time()); *)
(* a backend key with expiry e exists while now < e and its TTL is e - now. *)
(* The configured limit, window and cache threshold are scaled down from    *)
(* the source's 60 / 60 s / 1000 entries so that TLC can enumerate whole    *)
(* windows; the limit keeps the value 3 of the specification's own case.    *)
(***************************************************************************)
EXTENDS Integers, Sequences, FiniteSets, TLC

\* ------------------------------------------------------------------------
\* Configuration (rate_limit.py:13-19, :64) and model bounds
\* ------------------------------------------------------------------------
MAX_REQUESTS_PER_WINDOW == 3
RATE_LIMIT_WINDOW == 2
CACHE_CLEAR_THRESHOLD == 1
_cache_ttl == 1

MaxTime == 2
MaxCount == 5
MaxPools == 3

\* redis_client.py:61: backoff's max_tries.
max_tries == 3

\* The processes that serve requests, each with its own _rate_limit_cache.
Instances == 1

Clients == {"A", "B"}
Observed == "A"
Procs == {"p1", "p2"}
HealthPaths == {"/api/health", "/api/redis-health"}
LimitedPath == "/api/chat"

VARIABLES
    now,        \* wall clock, whole seconds
    redisUp,    \* TRUE while the backend answers
    rl,         \* backend keys rate_limit:{client}: [count, expiry]; count = 0: no key;
                \* born: when INCR created the key (history)
    cache,      \* _rate_limit_cache: client -> [count, expiry], and when written
    pc,         \* position of each request coroutine
    rq,         \* locals of each request coroutine while it runs
    last,       \* the request completed by the latest step, with its outcome
    hist,       \* the window of the observed client the claims speak about (history)
    store,      \* backend keys conversation:{id}: encoded value, expiry, provenance
    spc,        \* position of each store coroutine
    srq,        \* locals of each store coroutine while it runs
    slast,      \* the store operation completed by the latest step, with its outcome
    redis_pool, \* the module's pool reference: 0 for None, else the pool's number
    pools,      \* the pools constructed so far and what became of them (history)
    env,        \* what os.getenv("REDIS_URL") gives
    apc,        \* position of each get_redis_connection call
    arq,        \* locals of each get_redis_connection call
    closing,    \* the pool close_redis_pool is disconnecting, 0 when it is not running
    alast       \* the acquire or close completed by the latest step, with its outcome

stVars == <<store, spc, srq, slast>>
cmVars == <<redis_pool, pools, env, apc, arq, closing, alast>>
vars == <<now, redisUp, rl, cache, pc, rq, last, hist, store, spc, srq, slast,
          redis_pool, pools, env, apc, arq, closing, alast>>

\* ------------------------------------------------------------------------
\* Helpers
\* ------------------------------------------------------------------------
NoClient == "none"
NoKey == [count |-> 0, expiry |-> 0, born |-> 0]
NoRes == [allowed |-> TRUE, remaining |-> 0, reset |-> 0, src |-> "none"]
NoWindow == [start |-> -1, calls |-> 0, denied |-> FALSE, post |-> FALSE]

IdleRq == [client |-> NoClient, ctime |-> 0, ttl |-> 0, newCount |-> 0, exc |-> "none"]

NoLast ==
    [path |-> "none", client |-> NoClient, res |-> NoRes, exc |-> "none",
     out |-> "none", calls |-> 0, down |-> FALSE, callNo |-> 0, afterDenied |-> FALSE]

Min(a, b) == IF a < b THEN a ELSE b

\* Exceptions the redis library raises, and the store's own RedisError class
\* (redis_client.py:100), which none of the library's exceptions derive from.
LibraryErrors == {"ConnectionError", "TimeoutError"}
IsRedisError(e) == e = "RedisError"
IsException(e) == e \in LibraryErrors \cup {"RedisError"}

\* Redis TTL: -2 when the key does not exist, else the seconds left.
RedisTTL(c) == IF rl[c].count = 0 THEN -2 ELSE rl[c].expiry - now

\* rate_limit.py:42-46: the answer taken from a live cache entry.
CacheLive(c, t) == c \in DOMAIN cache /\ t < cache[c].expiry
FromCache(c, t) ==
    [allowed |-> cache[c].count < MAX_REQUESTS_PER_WINDOW,
     remaining |-> MAX_REQUESTS_PER_WINDOW - cache[c].count,
     reset |-> cache[c].expiry - t,
     src |-> "cache"]

\* FromBackend with the comparison of line 68 written as `<`.
FromBackendStrict(newCount, ttl) ==
    [allowed |-> newCount < MAX_REQUESTS_PER_WINDOW,
     remaining |-> MAX_REQUESTS_PER_WINDOW - newCount,
     reset |-> ttl,
     src |-> "backend"]

\* rate_limit.py:67-68: the answer computed from the pipeline's reply.
FromBackend(newCount, ttl) ==
    [allowed |-> newCount <= MAX_REQUESTS_PER_WINDOW,
     remaining |-> MAX_REQUESTS_PER_WINDOW - newCount,
     reset |-> ttl,
     src |-> "backend"]

\* FailOpen reporting the quota as used up instead of full.
FailOpenNoQuota ==
    [allowed |-> TRUE, remaining |-> 0, reset |-> 0, src |-> "failopen"]

\* rate_limit.py:72 and :75: the fail-open answer of both except clauses.
FailOpen ==
    [allowed |-> TRUE, remaining |-> MAX_REQUESTS_PER_WINDOW, reset |-> 0,
     src |-> "failopen"]

Raised == [allowed |-> FALSE, remaining |-> 0, reset |-> 0, src |-> "raised"]

\* OnCheckError without the `except Exception` clause of lines 73-75.
OnCheckErrorRedisOnly(e) ==
    IF IsRedisError(e) THEN FailOpen ELSE Raised

\* rate_limit.py:70-75: what check_rate_limit does with an exception raised
\* inside its try block.
OnCheckError(e) ==
    IF IsRedisError(e) THEN FailOpen
    ELSE IF IsException(e) THEN FailOpen
    ELSE Raised

\* CachePut making room by dropping the other entries and keeping the new one.
CachePutEvict(c, entry) ==
    LET put == [k \in DOMAIN cache \cup {c} |-> IF k = c THEN entry ELSE cache[k]]
    IN  IF Cardinality(DOMAIN put) > CACHE_CLEAR_THRESHOLD
        THEN [k \in {c} |-> entry] ELSE put

\* rate_limit.py:60-65: cache write followed by the size check.
CachePut(c, entry) ==
    LET put == [k \in DOMAIN cache \cup {c} |-> IF k = c THEN entry ELSE cache[k]]
    IN  IF Cardinality(DOMAIN put) > CACHE_CLEAR_THRESHOLD THEN <<>> ELSE put

InFlight(q) == pc[q] \in {"conn", "exec", "reply"}

\* ------------------------------------------------------------------------
\* Record codec (redis_client.py:159-186) and the wire encoding
\* ------------------------------------------------------------------------
\* Python values are tagged with their type.  A timestamp field holds
\* [ty, n]: the ISO-8601 string of clock value n ("str"), an integer ("int"),
\* None ("none") or a datetime object ("datetime"); ISO strings of one clock
\* compare as their clock values do.  A text field holds [ty, s].
Ids == {"x", "y", "z"}
RETENTION_TTL == 2

RequiredFields == {"id", "title", "messages", "created_at", "updated_at"}

Iso(t) == [ty |-> "str", n |-> t]
Str(x) == [ty |-> "str", s |-> x]
PyNone == [ty |-> "none", s |-> ""]

\* str(v): a string stays as it is, None becomes the string 'None'.
PyStr(v) == IF v.ty = "str" THEN v ELSE Str("None")

\* dict.get(key, default)
DictGet(d, k, default) == IF k \in DOMAIN d THEN d[k] ELSE default

Dict(d) == [kind |-> "dict", d |-> d]
NotADict == [kind |-> "str", d |-> <<>>]
List(items) == [ty |-> "list", items |-> items]
NotAList == [ty |-> "str", items |-> <<>>]

\* redis_client.py:177-186
sanitize_message(message, t) ==
    IF message.kind # "dict"
    THEN Dict([role |-> Str("system"), content |-> Str("Invalid message format"),
               timestamp |-> Iso(t)])
    ELSE Dict([role |-> PyStr(DictGet(message.d, "role", Str("system"))),
               content |-> PyStr(DictGet(message.d, "content", Str(""))),
               timestamp |-> DictGet(message.d, "timestamp", Iso(t))])

RECURSIVE SanitizeEach(_, _)
SanitizeEach(items, t) ==
    IF items = <<>> THEN <<>>
    ELSE LET rest == SanitizeEach(Tail(items), t)
         IN  IF Head(items).kind = "dict"
             THEN <<sanitize_message(Head(items), t)>> \o rest
             ELSE rest

\* redis_client.py:159-175.  conversation is a decoded value [ty, d]; the
\* membership test `field in conversation` of a list looks for an element
\* equal to the field name, which no list here holds.  The result is
\* [ok, conv]: ok = FALSE stands for the ValueError of line 163.
MissingFields(conversation) ==
    IF conversation.ty = "dict" THEN RequiredFields \ DOMAIN conversation.d
    ELSE RequiredFields

\* sanitize_conversation with the isinstance test of line 166 inverted.
sanitize_conversation_inverted(conversation, t) ==
    IF MissingFields(conversation) # {}
    THEN [ok |-> FALSE, conv |-> <<>>]
    ELSE LET d == conversation.d
             msgs == IF d.messages.ty # "list" THEN d.messages.items ELSE <<>>
         IN  [ok |-> TRUE,
              conv |-> [d EXCEPT !.messages = List(SanitizeEach(msgs, t))]]

sanitize_conversation(conversation, t) ==
    IF MissingFields(conversation) # {}
    THEN [ok |-> FALSE, conv |-> <<>>]
    ELSE LET d == conversation.d
             msgs == IF d.messages.ty = "list" THEN d.messages.items ELSE <<>>
         IN  [ok |-> TRUE,
              conv |-> [d EXCEPT !.messages = List(SanitizeEach(msgs, t))]]

\* json.dumps: a datetime object is not serialisable (TypeError); every
\* other value here is JSON-native and is written as the text denoting it.
Serialisable(conv) ==
    /\ conv.created_at.ty # "datetime" /\ conv.updated_at.ty # "datetime"
    /\ \A i \in 1..Len(conv.messages.items) :
          conv.messages.items[i].d.timestamp.ty # "datetime"

json_dumps(conv) == [w |-> "json", ty |-> "dict", d |-> conv]

\* json.loads: [ok, val]; ok = FALSE stands for JSONDecodeError.
json_loads(data) ==
    IF data.w = "json" THEN [ok |-> TRUE, val |-> [ty |-> data.ty, d |-> data.d]]
    ELSE [ok |-> FALSE, val |-> [ty |-> "list", d |-> <<>>]]

\* What the backend holds under a conversation key.  w = "none": no key;
\* "empty": the empty string; "garbage": text that is not JSON; "json": JSON
\* text of a record (ty = "dict") or of a list (ty = "list").  by, raw, sanAt
\* and stampAt tell which save wrote the value (history).
NoEntry ==
    [w |-> "none", ty |-> "list", d |-> <<>>, expiry |-> 0,
     by |-> "none", raw |-> <<>>, sanAt |-> 0, stampAt |-> 0]

External(w, ty, d, e) ==
    [w |-> w, ty |-> ty, d |-> d, expiry |-> e,
     by |-> "external", raw |-> <<>>, sanAt |-> 0, stampAt |-> 0]

\* raised is the exception the operation ended with and cause the exception
\* it was raised from; applied tells whether the backend executed the
\* operation's write; n is the count a bulk delete returned.
NoSLast ==
    [op |-> "none", id |-> "", raised |-> "none", found |-> FALSE, conv |-> <<>>,
     list |-> <<>>, entry |-> NoEntry, at |-> 0, seen |-> {}, keys |-> {},
     cause |-> "none", applied |-> FALSE, n |-> 0]

\* redis_client.py:210-212 (and :155-157, :222-224, :237-239, :257-259): the
\* `except Exception` clause of a store operation raises RedisError from e.
Wrapped(e) == IF e = "none" THEN "none" ELSE "RedisError"

\* error_handler.py:19-60: the status the error middleware answers with when
\* the exception e reaches it.
error_handler_middleware(e) ==
    IF e = "RequestValidationError" THEN 422
    ELSE IF e = "RedisError" THEN 503
    ELSE 500

IdleSrq ==
    [op |-> "none", id |-> "", conv |-> <<>>, raw |-> <<>>, sanAt |-> 0, stampAt |-> 0,
     data |-> NoEntry, keys |-> {}]

\* Connection manager (redis_client.py:49-98).  A pool is known by its
\* number in the order of construction; pools.made counts the pools
\* constructed, pools.disconnected holds those close_redis_pool disconnected
\* and pools.bound those a client was created on since the reference was
\* last cleared.
NoPools == [made |-> 0, disconnected |-> {}, bound |-> {}]

EnvValues == {"ok", "unset", "malformed"}

IdleArq == [tries |-> 0, pool |-> 0, probes |-> 0]

\* op: "acquire" or "close"; raised: the exception the call ended with;
\* tries: calls of the function body backoff made; probes: pings sent;
\* probe: outcome of the last ping; pool: the pool of the returned client or
\* the pool closed; built: pools constructed by the call.
NoALast ==
    [op |-> "none", raised |-> "none", tries |-> 0, probes |-> 0,
     probe |-> "none", pool |-> 0, built |-> 0]

\* ------------------------------------------------------------------------
\* Initial state
\* ------------------------------------------------------------------------
Init ==
    /\ now = 0
    /\ redisUp = TRUE
    /\ rl = [c \in Clients |-> NoKey]
    /\ cache = <<>>
    /\ pc = [p \in Procs |-> "idle"]
    /\ rq = [p \in Procs |-> IdleRq]
    /\ last = NoLast
    /\ hist = NoWindow
    /\ store = [i \in Ids |-> NoEntry]
    /\ spc = [p \in Procs |-> "idle"]
    /\ srq = [p \in Procs |-> IdleSrq]
    /\ slast = NoSLast
    /\ redis_pool = 0
    /\ pools = NoPools
    /\ env = "ok"
    /\ apc = [p \in Procs |-> "idle"]
    /\ arq = [p \in Procs |-> IdleArq]
    /\ closing = 0
    /\ alast = NoALast

\* ------------------------------------------------------------------------
\* rate_limit_middleware / check_rate_limit
\* ------------------------------------------------------------------------
\* The window bookkeeping of a check of the observed client that begins now.
\* A window opens at a check that finds no backend counter, an empty cache
\* and no other check of the client under way; it lasts RATE_LIMIT_WINDOW
\* seconds from that check and counts the checks begun in it.  post marks
\* the first check begun after a window in which the client was denied.
\* Only windows of consecutive (non-overlapping) checks are followed.
WindowAtBegin(p) ==
    LET busy == \E q \in Procs \ {p} : InFlight(q) /\ rq[q].client = Observed
        fresh == rl[Observed].count = 0 /\ DOMAIN cache = {}
        inWin == hist.start >= 0 /\ now < hist.start + RATE_LIMIT_WINDOW
        after == hist.start >= 0 /\ ~inWin /\ hist.denied
    IN  IF busy THEN NoWindow
        ELSE IF fresh THEN [start |-> now, calls |-> 1, denied |-> FALSE, post |-> after]
        ELSE IF inWin THEN [hist EXCEPT !.calls = Min(@ + 1, MAX_REQUESTS_PER_WINDOW + 2)]
        ELSE [NoWindow EXCEPT !.post = after]

\* rate_limit.py:87-112: what the middleware does once check_rate_limit has
\* answered res (or raised, res.src = "raised").  first and second are the
\* outcomes of the downstream handler when call_next invokes it: TRUE when it
\* answers, FALSE when it raises.
\*   denied            -> 429, call_next is not reached        (lines 87-100)
\*   allowed           -> call_next inside the try block       (line 103)
\*   anything raised inside the try block -> call_next         (lines 109-112)
\* Respond handing a denied request on to the downstream handler.
RespondForwardsDenied(res, first, second) ==
    IF res.src = "raised"
    THEN [out |-> IF second THEN "200" ELSE "error", calls |-> 1]
    ELSE IF first
    THEN [out |-> "200", calls |-> 1]
    ELSE [out |-> IF second THEN "200" ELSE "error", calls |-> 2]

Respond(res, first, second) ==
    IF res.src = "raised"
    THEN [out |-> IF second THEN "200" ELSE "error", calls |-> 1]
    ELSE IF ~res.allowed
    THEN [out |-> "429", calls |-> 0]
    ELSE IF first
    THEN [out |-> "200", calls |-> 1]
    ELSE [out |-> IF second THEN "200" ELSE "error", calls |-> 2]

\* check_rate_limit returns res to the middleware, which answers the request.
\* c is the client, h the window bookkeeping to update, e the exception that
\* was raised inside the check (or "none"), down whether the backend was
\* unreachable when the check was called and answered or first reached for it.
Return(p, c, h, res, e, down) ==
    /\ \E first, second \in BOOLEAN :
         LET a == Respond(res, first, second)
         IN  last' = [path |-> LimitedPath, client |-> c, res |-> res, exc |-> e,
                      out |-> a.out, calls |-> a.calls, down |-> down,
                      callNo |-> IF c = Observed THEN h.calls ELSE 0,
                      afterDenied |-> c = Observed /\ h.post]
    /\ rq' = [rq EXCEPT ![p] = IdleRq]
    /\ pc' = [pc EXCEPT ![p] = "idle"]
    /\ hist' = IF c # Observed THEN h
               ELSE IF e # "none" \/ h.start < 0 THEN NoWindow
               ELSE [h EXCEPT !.denied = @ \/ ~res.allowed, !.post = FALSE]

\* rate_limit.py:80-81: a health path skips the limiter; call_next runs
\* outside the try block, so a raising handler propagates.
MwHealth(p, path) ==
    /\ pc[p] = "idle"
    /\ path \in HealthPaths
    /\ \E ok \in BOOLEAN :
         last' = [NoLast EXCEPT !.path = path, !.calls = 1,
                                !.out = IF ok THEN "200" ELSE "error"]
    /\ UNCHANGED <<now, redisUp, rl, cache, pc, rq, hist>>
    /\ UNCHANGED <<stVars, cmVars>>

\* rate_limit.py:83-85 and :39-46: a request on a limited path starts
\* check_rate_limit, which reads the clock and answers from a live cache
\* entry, or goes on to acquire a connection.
MwBegin(p, c) ==
    /\ pc[p] = "idle"
    /\ LET w == IF c = Observed THEN WindowAtBegin(p) ELSE hist
       IN  IF CacheLive(c, now)
           THEN Return(p, c, w, FromCache(c, now), "none", ~redisUp)
           ELSE /\ rq' = [rq EXCEPT ![p] = [IdleRq EXCEPT !.client = c, !.ctime = now]]
                /\ pc' = [pc EXCEPT ![p] = "conn"]
                /\ hist' = w
                /\ last' = NoLast
    /\ UNCHANGED <<now, redisUp, rl, cache>>
    /\ UNCHANGED <<stVars, cmVars>>

\* rate_limit.py:49: get_redis_connection pings the backend; a failed ping
\* raises the library's error into check_rate_limit's try block.
Connect(p) ==
    /\ pc[p] = "conn"
    /\ IF redisUp
       THEN /\ pc' = [pc EXCEPT ![p] = "exec"]
            /\ last' = NoLast
            /\ UNCHANGED <<rq, hist>>
       ELSE \E e \in LibraryErrors : Return(p, rq[p].client, hist, OnCheckError(e), e, TRUE)
    /\ UNCHANGED <<now, redisUp, rl, cache>>
    /\ UNCHANGED <<stVars, cmVars>>

\* Execute with the pipeline cut after INCR: a counter that INCR creates is
\* left without an expiry (written as expiry 0) and an existing one keeps its.
ExecuteNoExpire(p) ==
    /\ pc[p] = "exec"
    /\ LET c == rq[p].client
       IN  IF redisUp
           THEN /\ rl[c].count < MaxCount
                /\ rl' = [rl EXCEPT ![c] = [count |-> rl[c].count + 1,
                                            expiry |-> rl[c].expiry,
                                            born |-> IF rl[c].count = 0 THEN now
                                                     ELSE rl[c].born]]
                /\ rq' = [rq EXCEPT ![p] = [@ EXCEPT !.exc = "ConnectionError"]]
           ELSE /\ rl' = rl
                /\ rq' = [rq EXCEPT ![p] = [@ EXCEPT !.exc = "ConnectionError"]]
    /\ pc' = [pc EXCEPT ![p] = "reply"]
    /\ last' = NoLast
    /\ UNCHANGED <<now, redisUp, cache, hist>>
    /\ UNCHANGED <<stVars, cmVars>>

\* rate_limit.py:52-58: the pipeline runs as one MULTI/EXEC transaction at the
\* backend: GET, TTL, INCR, EXPIRE key RATE_LIMIT_WINDOW.  The reply carries
\* the TTL read before the EXPIRE and the incremented count.  When the
\* backend is down nothing is applied; when it is up the reply may still be
\* lost to a socket timeout after the transaction was applied.
Execute(p) ==
    /\ pc[p] = "exec"
    /\ LET c == rq[p].client
       IN  IF redisUp
           THEN /\ rl[c].count < MaxCount
                /\ rl' = [rl EXCEPT ![c] = [count |-> rl[c].count + 1,
                                            expiry |-> now + RATE_LIMIT_WINDOW,
                                            born |-> IF rl[c].count = 0 THEN now
                                                     ELSE rl[c].born]]
                /\ \E lost \in BOOLEAN :
                     rq' = [rq EXCEPT ![p] = [@ EXCEPT
                              !.ttl = IF lost THEN 0 ELSE RedisTTL(c),
                              !.newCount = IF lost THEN 0 ELSE rl[c].count + 1,
                              !.exc = IF lost THEN "TimeoutError" ELSE "none"]]
           ELSE /\ rl' = rl
                /\ rq' = [rq EXCEPT ![p] = [@ EXCEPT !.exc = "ConnectionError"]]
    /\ pc' = [pc EXCEPT ![p] = "reply"]
    /\ last' = NoLast
    /\ UNCHANGED <<now, redisUp, cache, hist>>
    /\ UNCHANGED <<stVars, cmVars>>

\* rate_limit.py:58-75: the coroutine resumes with the reply (cache update,
\* size check, answer) or with the error (fail open).
Resume(p) ==
    /\ pc[p] = "reply"
    /\ LET c == rq[p].client
           e == rq[p].exc
       IN  IF e = "none"
           THEN /\ cache' = CachePut(c, [count |-> rq[p].newCount,
                                         expiry |-> rq[p].ctime + rq[p].ttl,
                                         at |-> now])
                /\ Return(p, c, hist, FromBackend(rq[p].newCount, rq[p].ttl), "none", FALSE)
           ELSE /\ cache' = cache
                /\ Return(p, c, hist, OnCheckError(e), e, FALSE)
    /\ UNCHANGED <<now, redisUp, rl>>
    /\ UNCHANGED <<stVars, cmVars>>

\* ------------------------------------------------------------------------
\* Conversation store (redis_client.py:104-259)
\* ------------------------------------------------------------------------
\* Conversations handed to save_conversation: every shape for id "x", one
\* well-formed conversation for the other ids.
mFull == Dict([role |-> Str("user"), content |-> Str("hi"), timestamp |-> Iso(0)])
mOdd == Dict([role |-> Str("bot"), content |-> PyNone])
mBare == Dict(<<>>)
mClock == Dict([role |-> Str("user"), content |-> Str("hi"),
                timestamp |-> [ty |-> "datetime", n |-> 0]])

MessageLists == {<<mFull, mOdd>>, <<NotADict, mBare>>, <<mClock>>}

Conv(id, messages, updated) ==
    [id |-> id, title |-> "T", messages |-> messages,
     created_at |-> Iso(0), updated_at |-> updated]

RawConversations(id) ==
    IF id = "x"
    THEN {Conv(id, List(ms), Iso(0)) : ms \in MessageLists}
            \cup {Conv(id, NotAList, Iso(0))}
            \cup {[id |-> id, messages |-> List(<<mFull>>),
                   created_at |-> Iso(0), updated_at |-> Iso(0)]}
            \cup {[title |-> "T", messages |-> List(<<mFull>>),
                   created_at |-> Iso(0), updated_at |-> Iso(0)]}
    ELSE {Conv(id, List(<<mFull>>), Iso(0))}

\* Values another writer may have left under a conversation key: text that
\* is not JSON, the empty string, a JSON list, records without id, without
\* title and with an integer updated_at, and a well-formed record.
ExternalValues(id) ==
    {[w |-> "garbage", ty |-> "list", d |-> <<>>],
     [w |-> "empty", ty |-> "list", d |-> <<>>],
     [w |-> "json", ty |-> "list", d |-> <<>>],
     [w |-> "json", ty |-> "dict", d |-> [title |-> "T"]],
     [w |-> "json", ty |-> "dict",
      d |-> [id |-> id, messages |-> List(<<>>),
             created_at |-> Iso(0), updated_at |-> Iso(0)]],
     [w |-> "json", ty |-> "dict",
      d |-> Conv(id, List(<<>>), [ty |-> "int", n |-> 1])],
     [w |-> "json", ty |-> "dict", d |-> Conv(id, List(<<>>), Iso(1))]}

\* The store operation of coroutine p ends with outcome o.
Done(p, o) ==
    /\ slast' = o
    /\ spc' = [spc EXCEPT ![p] = "idle"]
    /\ srq' = [srq EXCEPT ![p] = IdleSrq]

\* SaveBegin giving a conversation that comes without an id the id of the
\* key it is saved for, before validating it.
SaveBeginAssignsId(p, id, raw) ==
    /\ spc[p] = "idle"
    /\ LET given == [k \in DOMAIN raw \cup {"id"} |-> IF k = "id" THEN id ELSE raw[k]]
           r == sanitize_conversation([ty |-> "dict", d |-> given], now)
       IN  IF ~r.ok
           THEN /\ Done(p, [NoSLast EXCEPT !.op = "save", !.id = id, !.conv = raw,
                                            !.raised = Wrapped("ValueError"),
                                            !.cause = "ValueError"])
           ELSE /\ spc' = [spc EXCEPT ![p] = "s_conn"]
                /\ srq' = [srq EXCEPT ![p] = [IdleSrq EXCEPT
                              !.op = "save", !.id = id, !.conv = r.conv,
                              !.raw = raw, !.sanAt = now]]
                /\ slast' = NoSLast
    /\ UNCHANGED <<now, redisUp, rl, cache, pc, rq, last, hist, store, cmVars>>

\* redis_client.py:190-192 and :210-212: save_conversation validates and
\* sanitizes before its first await; the ValueError of a missing field is
\* re-raised as RedisError.
SaveBegin(p, id, raw) ==
    /\ spc[p] = "idle"
    /\ LET r == sanitize_conversation([ty |-> "dict", d |-> raw], now)
       IN  IF ~r.ok
           THEN /\ Done(p, [NoSLast EXCEPT !.op = "save", !.id = id, !.conv = raw,
                                            !.raised = Wrapped("ValueError"),
                                            !.cause = "ValueError"])
           ELSE /\ spc' = [spc EXCEPT ![p] = "s_conn"]
                /\ srq' = [srq EXCEPT ![p] = [IdleSrq EXCEPT
                              !.op = "save", !.id = id, !.conv = r.conv,
                              !.raw = raw, !.sanAt = now]]
                /\ slast' = NoSLast
    /\ UNCHANGED <<now, redisUp, rl, cache, pc, rq, last, hist, store, cmVars>>

\* redis_client.py:194-206: with the connection in hand the coroutine stamps
\* updated_at, defaults created_at, encodes the record and sends SETEX; a
\* failed ping or an unserialisable value is re-raised as RedisError.
SaveStamp(p) ==
    /\ spc[p] = "s_conn"
    /\ LET c0 == [srq[p].conv EXCEPT !.updated_at = Iso(now)]
           c1 == IF "created_at" \in DOMAIN c0 THEN c0
                 ELSE [k \in DOMAIN c0 \cup {"created_at"} |->
                         IF k = "created_at" THEN c0.updated_at ELSE c0[k]]
           e == IF ~redisUp THEN "ConnectionError" ELSE "TypeError"
       IN  IF ~redisUp \/ ~Serialisable(c1)
           THEN Done(p, [NoSLast EXCEPT !.op = "save", !.id = srq[p].id,
                                         !.raised = Wrapped(e), !.cause = e])
           ELSE /\ spc' = [spc EXCEPT ![p] = "s_setex"]
                /\ srq' = [srq EXCEPT ![p] = [@ EXCEPT !.conv = c1, !.stampAt = now]]
                /\ slast' = NoSLast
    /\ UNCHANGED <<now, redisUp, rl, cache, pc, rq, last, hist, store, cmVars>>

\* SaveApply sending the value although the connection is gone: the write
\* reaches the backend while the coroutine sees the failure.
SaveApplyHalf(p) ==
    /\ spc[p] = "s_setex"
    /\ LET id == srq[p].conv.id
           wire == json_dumps(srq[p].conv)
           entry == [w |-> wire.w, ty |-> wire.ty, d |-> wire.d,
                     expiry |-> now + RETENTION_TTL, by |-> "save",
                     raw |-> srq[p].raw, sanAt |-> srq[p].sanAt,
                     stampAt |-> srq[p].stampAt]
       IN  /\ store' = [store EXCEPT ![id] = entry]
           /\ Done(p, [NoSLast EXCEPT !.op = "save", !.id = id,
                                       !.raised = Wrapped("ConnectionError"),
                                       !.cause = "ConnectionError"])
    /\ UNCHANGED <<now, redisUp, rl, cache, pc, rq, last, hist, cmVars>>

\* redis_client.py:203-212: the backend applies SETEX key 30d value and the
\* coroutine returns; the reply may be lost after the write was applied, and
\* a backend that is down applies nothing.  Both are re-raised as RedisError.
SaveApply(p) ==
    /\ spc[p] = "s_setex"
    /\ LET id == srq[p].conv.id
           wire == json_dumps(srq[p].conv)
           entry == [w |-> wire.w, ty |-> wire.ty, d |-> wire.d,
                     expiry |-> now + RETENTION_TTL, by |-> "save",
                     raw |-> srq[p].raw, sanAt |-> srq[p].sanAt,
                     stampAt |-> srq[p].stampAt]
       IN  IF redisUp
           THEN /\ store' = [store EXCEPT ![id] = entry]
                /\ \E lost \in BOOLEAN :
                     LET e == IF lost THEN "TimeoutError" ELSE "none"
                     IN  Done(p, [NoSLast EXCEPT !.op = "save", !.id = id, !.at = now,
                                    !.entry = entry, !.applied = TRUE,
                                    !.raised = Wrapped(e), !.cause = e])
           ELSE /\ store' = store
                /\ Done(p, [NoSLast EXCEPT !.op = "save", !.id = id,
                                            !.raised = Wrapped("ConnectionError"),
                                            !.cause = "ConnectionError"])
    /\ UNCHANGED <<now, redisUp, rl, cache, pc, rq, last, hist, cmVars>>

\* redis_client.py:241-259: get_conversation.  An absent or empty value and
\* a JSONDecodeError give None; every other exception (a failed ping, the
\* ValueError of sanitize_conversation) is re-raised as RedisError.
GetOutcome(id, entry, t) ==
    LET base == [NoSLast EXCEPT !.op = "get", !.id = id, !.entry = entry, !.at = t]
        dec == json_loads(entry)
        san == sanitize_conversation(dec.val, t)
    IN  IF entry.w \in {"none", "empty"} THEN base
        ELSE IF ~dec.ok THEN base
        ELSE IF ~san.ok THEN [base EXCEPT !.raised = Wrapped("ValueError"),
                                          !.cause = "ValueError"]
        ELSE [base EXCEPT !.found = TRUE, !.conv = san.conv]

\* Get reading with GETEX: the read renews the key's retention.
GetTouch(p, id) ==
    /\ spc[p] = "idle"
    /\ IF redisUp
       THEN /\ Done(p, GetOutcome(id, store[id], now))
            /\ store' = [store EXCEPT ![id] =
                            IF @.w = "none" THEN @
                            ELSE [@ EXCEPT !.expiry = now + RETENTION_TTL]]
       ELSE /\ Done(p, [NoSLast EXCEPT !.op = "get", !.id = id,
                                        !.raised = Wrapped("ConnectionError"),
                                        !.cause = "ConnectionError"])
            /\ store' = store
    /\ UNCHANGED <<now, redisUp, rl, cache, pc, rq, last, hist, cmVars>>

Get(p, id) ==
    /\ spc[p] = "idle"
    /\ IF redisUp
       THEN Done(p, GetOutcome(id, store[id], now))
       ELSE Done(p, [NoSLast EXCEPT !.op = "get", !.id = id,
                                     !.raised = Wrapped("ConnectionError"),
                                     !.cause = "ConnectionError"])
    /\ UNCHANGED <<now, redisUp, rl, cache, pc, rq, last, hist, store, cmVars>>

\* Delete returning True whatever DEL answered.
DeleteAlways(p, id) ==
    /\ spc[p] = "idle"
    /\ IF redisUp
       THEN /\ store' = [store EXCEPT ![id] = NoEntry]
            /\ Done(p, [NoSLast EXCEPT !.op = "delete", !.id = id, !.found = TRUE])
       ELSE /\ store' = store
            /\ Done(p, [NoSLast EXCEPT !.op = "delete", !.id = id,
                                        !.raised = Wrapped("ConnectionError"),
                                        !.cause = "ConnectionError"])
    /\ UNCHANGED <<now, redisUp, rl, cache, pc, rq, last, hist, cmVars>>

\* redis_client.py:214-224: delete_conversation.
Delete(p, id) ==
    /\ spc[p] = "idle"
    /\ IF redisUp
       THEN /\ store' = [store EXCEPT ![id] = NoEntry]
            /\ Done(p, [NoSLast EXCEPT !.op = "delete", !.id = id,
                                        !.found = store[id].w # "none"])
       ELSE /\ store' = store
            /\ Done(p, [NoSLast EXCEPT !.op = "delete", !.id = id,
                                        !.raised = Wrapped("ConnectionError"),
                                        !.cause = "ConnectionError"])
    /\ UNCHANGED <<now, redisUp, rl, cache, pc, rq, last, hist, cmVars>>

\* redis_client.py:229-232: delete_all_conversations acquires a connection
\* and asks for the keys of the namespace; without keys it returns 0.
DeleteAllKeys(p) ==
    /\ spc[p] = "idle"
    /\ LET keys == {i \in Ids : store[i].w # "none"}
       IN  IF ~redisUp
           THEN Done(p, [NoSLast EXCEPT !.op = "deleteall",
                                         !.raised = Wrapped("ConnectionError"),
                                         !.cause = "ConnectionError"])
           ELSE IF keys = {}
           THEN Done(p, [NoSLast EXCEPT !.op = "deleteall", !.at = now])
           ELSE /\ spc' = [spc EXCEPT ![p] = "d_del"]
                /\ srq' = [srq EXCEPT ![p] = [IdleSrq EXCEPT !.op = "deleteall",
                                                             !.keys = keys]]
                /\ slast' = NoSLast
    /\ UNCHANGED <<now, redisUp, rl, cache, pc, rq, last, hist, store, cmVars>>

\* DeleteAllApply sending DEL for the first key only.
DeleteAllApplyOne(p) ==
    /\ spc[p] = "d_del"
    /\ IF ~redisUp
       THEN /\ store' = store
            /\ Done(p, [NoSLast EXCEPT !.op = "deleteall",
                                        !.raised = Wrapped("ConnectionError"),
                                        !.cause = "ConnectionError"])
       ELSE LET k == CHOOSE i \in srq[p].keys : TRUE
                gone == {i \in {k} : store[i].w # "none"}
            IN  /\ store' = [i \in Ids |-> IF i = k THEN NoEntry ELSE store[i]]
                /\ Done(p, [NoSLast EXCEPT !.op = "deleteall", !.at = now,
                                            !.keys = srq[p].keys,
                                            !.seen = {i \in Ids : store[i].w # "none"},
                                            !.n = Cardinality(gone)])
    /\ UNCHANGED <<now, redisUp, rl, cache, pc, rq, last, hist, cmVars>>

\* redis_client.py:234-239: DEL key1 key2 ... removes the listed keys in one
\* command and answers how many of them existed.
DeleteAllApply(p) ==
    /\ spc[p] = "d_del"
    /\ IF ~redisUp
       THEN /\ store' = store
            /\ Done(p, [NoSLast EXCEPT !.op = "deleteall",
                                        !.raised = Wrapped("ConnectionError"),
                                        !.cause = "ConnectionError"])
       ELSE LET gone == {i \in srq[p].keys : store[i].w # "none"}
            IN  /\ store' = [i \in Ids |-> IF i \in srq[p].keys THEN NoEntry ELSE store[i]]
                /\ Done(p, [NoSLast EXCEPT !.op = "deleteall", !.at = now,
                                            !.keys = srq[p].keys,
                                            !.seen = {i \in Ids : store[i].w # "none"},
                                            !.n = Cardinality(gone)])
    /\ UNCHANGED <<now, redisUp, rl, cache, pc, rq, last, hist, cmVars>>

\* redis_client.py:124-142: does a fetched value survive the per-record
\* checks of get_conversations?
Survives(entry) ==
    /\ entry.w = "json"
    /\ entry.ty = "dict"
    /\ "id" \in DOMAIN entry.d
    /\ sanitize_conversation(json_loads(entry).val, 0).ok

\* redis_client.py:145: list.sort(key = updated_at, reverse = True).  Python
\* orders str with str and int with int and raises TypeError for any other
\* pair; a sort of two or more keys compares every element with another one.
SortRaises(convs) ==
    /\ Len(convs) >= 2
    /\ ~ \E ty \in {"str", "int"} :
           \A i \in 1..Len(convs) : convs[i].updated_at.ty = ty

\* InsertDesc without reverse = True: the sort of line 145 in ascending order.
RECURSIVE InsertAsc(_, _)
InsertAsc(x, sorted) ==
    IF sorted = <<>> THEN <<x>>
    ELSE IF Head(sorted).updated_at.n <= x.updated_at.n
         THEN <<Head(sorted)>> \o InsertAsc(x, Tail(sorted))
         ELSE <<x>> \o sorted

RECURSIVE InsertDesc(_, _)
InsertDesc(x, sorted) ==
    IF sorted = <<>> THEN <<x>>
    ELSE IF Head(sorted).updated_at.n >= x.updated_at.n
         THEN <<Head(sorted)>> \o InsertDesc(x, Tail(sorted))
         ELSE <<x>> \o sorted

RECURSIVE SortDesc(_, _)
SortDesc(sorted, rest) ==
    IF rest = <<>> THEN sorted
    ELSE SortDesc(InsertDesc(Head(rest), sorted), Tail(rest))

\* Collect leaving the loop at the first record it cannot use (`break`
\* where lines 126-142 `continue`).
RECURSIVE CollectStops(_, _, _)
CollectStops(order, fetched, t) ==
    IF order = <<>> THEN <<>>
    ELSE LET e == fetched[Head(order)]
         IN  IF Survives(e)
             THEN <<sanitize_conversation(json_loads(e).val, t).conv>>
                      \o CollectStops(Tail(order), fetched, t)
             ELSE <<>>

\* redis_client.py:123-142: the per-record loop over the fetched values.
RECURSIVE Collect(_, _, _)
Collect(order, fetched, t) ==
    IF order = <<>> THEN <<>>
    ELSE LET e == fetched[Head(order)]
             rest == Collect(Tail(order), fetched, t)
         IN  IF Survives(e)
             THEN <<sanitize_conversation(json_loads(e).val, t).conv>> \o rest
             ELSE rest

Orders(keys) ==
    {o \in [1..Cardinality(keys) -> keys] : \A i, j \in DOMAIN o : i # j => o[i] # o[j]}

\* redis_client.py:106-115 and :149-157: get_conversations acquires a
\* connection and asks for the keys of the namespace.
ListKeys(p) ==
    /\ spc[p] = "idle"
    /\ LET keys == {i \in Ids : store[i].w # "none"}
       IN  IF ~redisUp
           THEN Done(p, [NoSLast EXCEPT !.op = "list",
                                         !.raised = Wrapped("ConnectionError"),
                                         !.cause = "ConnectionError"])
           ELSE IF keys = {}
           THEN Done(p, [NoSLast EXCEPT !.op = "list", !.at = now])
           ELSE /\ spc' = [spc EXCEPT ![p] = "l_fetch"]
                /\ srq' = [srq EXCEPT ![p] = [IdleSrq EXCEPT !.op = "list", !.keys = keys]]
                /\ slast' = NoSLast
    /\ UNCHANGED <<now, redisUp, rl, cache, pc, rq, last, hist, store, cmVars>>

\* redis_client.py:117-157: the pipelined GETs are answered in the order of
\* the keys, each record is decoded and sanitized or skipped, and the
\* survivors are sorted; any exception outside the per-record try block is
\* re-raised as RedisError.
ListFetch(p) ==
    /\ spc[p] = "l_fetch"
    /\ IF ~redisUp
       THEN Done(p, [NoSLast EXCEPT !.op = "list",
                                         !.raised = Wrapped("ConnectionError"),
                                         !.cause = "ConnectionError"])
       ELSE \E order \in Orders(srq[p].keys) :
              LET convs == Collect(order, store, now)
                  base == [NoSLast EXCEPT
                             !.op = "list", !.at = now, !.keys = srq[p].keys,
                             !.seen = {i \in Ids : store[i].w # "none"}]
              IN  IF SortRaises(convs)
                  THEN Done(p, [base EXCEPT !.raised = Wrapped("TypeError"),
                                            !.cause = "TypeError"])
                  ELSE Done(p, [base EXCEPT !.list = SortDesc(<<>>, convs)])
    /\ UNCHANGED <<now, redisUp, rl, cache, pc, rq, last, hist, store, cmVars>>

\* Another writer leaves a value under a conversation key.
ExternalWrite(id, v) ==
    /\ store[id].w = "none"
    /\ store' = [store EXCEPT ![id] = External(v.w, v.ty, v.d, now + RETENTION_TTL)]
    /\ slast' = NoSLast
    /\ UNCHANGED <<now, redisUp, rl, cache, pc, rq, last, hist, spc, srq, cmVars>>

\* ------------------------------------------------------------------------
\* get_redis_connection / close_redis_pool (redis_client.py:58-98)
\* ------------------------------------------------------------------------
limVars == <<now, rl, cache, pc, rq, last, hist>>

\* The acquire of coroutine p ends with outcome o.
AcquireDone(p, o) ==
    /\ alast' = o
    /\ apc' = [apc EXCEPT ![p] = "idle"]
    /\ arq' = [arq EXCEPT ![p] = IdleArq]

\* redis_client.py:68-78: the pool the body works with: the one the module
\* holds, or a newly constructed one when the reference is None.
PoolFor == IF redis_pool = 0 THEN pools.made + 1 ELSE redis_pool

\* redis_client.py:66-86: one call of the function body up to the await of
\* ping, made as try number `tries` of the acquire of p.  Without a pool the
\* body reads REDIS_URL and constructs one; an unset or malformed address
\* raises ValueError, which backoff does not retry.
Body(p, tries, probes, built) ==
    IF redis_pool = 0 /\ env # "ok"
    THEN /\ AcquireDone(p, [NoALast EXCEPT !.op = "acquire", !.raised = "ValueError",
                                           !.tries = tries, !.probes = probes,
                                           !.built = built])
         /\ UNCHANGED <<redis_pool, pools>>
    ELSE /\ redis_pool' = PoolFor
         /\ pools' = [pools EXCEPT
                        !.made = IF PoolFor > @ THEN PoolFor ELSE @,
                        !.bound = @ \cup {PoolFor}]
         /\ arq' = [arq EXCEPT ![p] = [tries |-> tries, pool |-> PoolFor,
                                       probes |-> probes + 1]]
         /\ apc' = [apc EXCEPT ![p] = "ping"]
         /\ alast' = [NoALast EXCEPT !.built = IF PoolFor > pools.made THEN 1 ELSE 0]

\* redis_client.py:64: a request calls get_redis_connection; the decorator
\* makes the first call of the body.
AcquireBegin(p) ==
    /\ apc[p] = "idle"
    /\ Body(p, 1, 0, 0)
    /\ UNCHANGED <<env, closing, redisUp>>
    /\ UNCHANGED <<limVars, stVars>>

\* GiveUp allowing one try more than max_tries.
GiveUpLate(tries, timeUp) == tries >= max_tries + 1 \/ timeUp

\* redis_client.py:58-63: backoff gives up after max_tries calls or when
\* max_time has elapsed, and re-raises the exception of the last call.
GiveUp(tries, timeUp) == tries >= max_tries \/ timeUp

\* redis_client.py:86-90: the ping is answered.  A live backend answers and
\* the client is returned; otherwise ping raises a connection or timeout
\* error, after which backoff sleeps before the next call or gives up.
AcquirePing(p) ==
    /\ apc[p] = "ping"
    /\ IF redisUp
       THEN AcquireDone(p, [NoALast EXCEPT !.op = "acquire", !.tries = arq[p].tries,
                                           !.probes = arq[p].probes, !.probe = "ok",
                                           !.pool = arq[p].pool])
       ELSE \E e \in LibraryErrors, timeUp \in BOOLEAN :
              IF GiveUp(arq[p].tries, timeUp)
              THEN AcquireDone(p, [NoALast EXCEPT !.op = "acquire", !.raised = e,
                                                 !.tries = arq[p].tries,
                                                 !.probes = arq[p].probes,
                                                 !.probe = e])
              ELSE /\ apc' = [apc EXCEPT ![p] = "sleep"]
                   /\ arq' = arq
                   /\ alast' = NoALast
    /\ UNCHANGED <<redis_pool, pools, env, closing, redisUp>>
    /\ UNCHANGED <<limVars, stVars>>

\* backoff's sleep ends and the decorator calls the body again.
AcquireRetry(p) ==
    /\ apc[p] = "sleep"
    /\ Body(p, arq[p].tries + 1, arq[p].probes, 0)
    /\ UNCHANGED <<env, closing, redisUp>>
    /\ UNCHANGED <<limVars, stVars>>

\* redis_client.py:92-96: close_redis_pool; without a pool it does nothing,
\* with one it awaits the pool's disconnect.  MaxPools bounds the number of
\* teardowns that are followed by a rebuild.
CloseBegin ==
    /\ closing = 0
    /\ IF redis_pool = 0
       THEN /\ alast' = [NoALast EXCEPT !.op = "close"]
            /\ closing' = closing
       ELSE /\ pools.made < MaxPools
            /\ closing' = redis_pool
            /\ alast' = NoALast
    /\ UNCHANGED <<redis_pool, pools, env, apc, arq, redisUp>>
    /\ UNCHANGED <<limVars, stVars>>

\* CloseEnd leaving the reference in place after the disconnect.
CloseEndKeeps ==
    /\ closing # 0
    /\ pools' = [pools EXCEPT !.disconnected = @ \cup {closing}]
    /\ redis_pool' = redis_pool
    /\ closing' = 0
    /\ alast' = [NoALast EXCEPT !.op = "close", !.pool = closing]
    /\ UNCHANGED <<env, apc, arq, redisUp>>
    /\ UNCHANGED <<limVars, stVars>>

\* redis_client.py:96-98: the disconnect is done and the reference is cleared.
CloseEnd ==
    /\ closing # 0
    /\ pools' = [pools EXCEPT !.disconnected = @ \cup {closing}, !.bound = {}]
    /\ redis_pool' = 0
    /\ closing' = 0
    /\ alast' = [NoALast EXCEPT !.op = "close", !.pool = closing]
    /\ UNCHANGED <<env, apc, arq, redisUp>>
    /\ UNCHANGED <<limVars, stVars>>

\* The REDIS_URL of the process environment changes.
EnvChange ==
    /\ \E v \in EnvValues \ {env} : env' = v
    /\ alast' = NoALast
    /\ UNCHANGED <<redis_pool, pools, apc, arq, closing, redisUp>>
    /\ UNCHANGED <<limVars, stVars>>

\* The backend becomes unreachable or reachable again while calls acquire.
PoolBackendFlip ==
    /\ redisUp' = ~redisUp
    /\ alast' = NoALast
    /\ UNCHANGED <<redis_pool, pools, env, apc, arq, closing>>
    /\ UNCHANGED <<limVars, stVars>>

\* ------------------------------------------------------------------------
\* Single-conversation endpoints (chat.py:249-323)
\* ------------------------------------------------------------------------
\* chat.py:264-284 and :302-322: the except clauses both endpoints end with.
\* `except RedisError` answers 503; `except Exception` answers 500 and,
\* HTTPException being an Exception, also catches the HTTPException the try
\* block itself raised.
EndpointExcept(e) == IF e = "RedisError" THEN 503 ELSE 500

\* chat.py:250-284: the status get_conversation_endpoint answers with when
\* get_conversation ended with outcome o.
get_conversation_endpoint(o) ==
    IF o.raised # "none" THEN EndpointExcept(o.raised)
    ELSE IF ~o.found THEN EndpointExcept("HTTPException")
    ELSE 200

\* chat.py:288-322: the status delete_conversation_endpoint answers with
\* when delete_conversation ended with outcome o.
delete_conversation_endpoint(o) ==
    IF o.raised # "none" THEN EndpointExcept(o.raised)
    ELSE IF ~o.found THEN EndpointExcept("HTTPException")
    ELSE 200

\* ------------------------------------------------------------------------
\* Chat turns (chat.py:128-213)
\* ------------------------------------------------------------------------
\* Ids uuid4 may produce, message texts of requests, and the longest message
\* list a turn is started on.
ChatIds == {"x"}
Texts == {"hi", "yo"}
MaxMessages == 4
NoId == ""

\* chat.py:155-161: the reply of the model, or the apology when generating
\* raised.
ResponseText(generated) == IF generated THEN Str("re") ELSE Str("sorry")

\* chat.py:175-184: the two messages a turn appends, the user's first.
TurnMessages(text, generated, t) ==
    <<Dict([role |-> Str("user"), content |-> Str(text), timestamp |-> Iso(t)]),
      Dict([role |-> Str("assistant"), content |-> ResponseText(generated),
            timestamp |-> Iso(t)])>>

\* chat.py:164-172: the conversation a request without conversation_id
\* starts, under the id uuid4 gave.
NewConversation(u, text, t) ==
    [id |-> u, title |-> text, created_at |-> Iso(t), updated_at |-> Iso(t),
     messages |-> List(<<>>)]

\* get_conversation(id) as chat_endpoint awaits it (chat.py:139).
GetNow(id) ==
    IF redisUp THEN GetOutcome(id, store[id], now)
    ELSE [NoSLast EXCEPT !.op = "get", !.id = id,
                         !.raised = Wrapped("ConnectionError"),
                         !.cause = "ConnectionError"]

\* chat.py:137-153 and :186-213: the status chat_endpoint answers with when
\* the request named conversation cid (NoId: none) and get_conversation
\* ended with outcome got.  The HTTPException of line 141 is re-raised by
\* `except HTTPException`; a RedisError of save_conversation is logged and
\* the turn is answered as a success.
chat_endpoint(cid, got) ==
    IF cid = NoId THEN 200
    ELSE IF got.raised # "none" THEN 503
    ELSE IF ~got.found THEN 404
    ELSE 200

\* chat.py:131-187 and redis_client.py:190-192: a chat request reads the
\* conversation it names (or starts a new one under a fresh id), appends its
\* two messages to the copy it holds and calls save_conversation, which
\* sanitizes the copy and then awaits a connection.  srq[p].data keeps the
\* value the read saw.
ChatBegin(p, cid, text, generated) ==
    /\ spc[p] = "idle"
    /\ LET got == IF cid = NoId THEN NoSLast ELSE GetNow(cid)
       IN  IF chat_endpoint(cid, got) # 200
           THEN Done(p, [got EXCEPT !.op = "chat"])
           ELSE \E u \in ChatIds :
                  /\ IF cid = NoId
                     THEN /\ store[u].w = "none"
                          /\ \A q \in Procs : srq[q].id # u
                     ELSE u = got.conv.id
                  /\ LET conversation == IF cid = NoId
                                         THEN NewConversation(u, text, now)
                                         ELSE got.conv
                         turn == TurnMessages(text, generated, now)
                         raw == [conversation EXCEPT
                                   !.messages = List(@.items \o turn)]
                         r == sanitize_conversation([ty |-> "dict", d |-> raw], now)
                     IN  /\ Len(conversation.messages.items) + 2 <= MaxMessages
                         /\ spc' = [spc EXCEPT ![p] = "s_conn"]
                         /\ srq' = [srq EXCEPT ![p] = [IdleSrq EXCEPT
                                       !.op = "chat", !.id = u, !.conv = r.conv,
                                       !.raw = raw, !.sanAt = now,
                                       !.data = IF cid = NoId THEN NoEntry
                                                ELSE store[cid]]]
                         /\ slast' = NoSLast
    /\ UNCHANGED <<now, redisUp, rl, cache, pc, rq, last, hist, store, cmVars>>

\* ------------------------------------------------------------------------
\* Environment
\* ------------------------------------------------------------------------
\* One second passes; the backend drops the keys whose expiry is reached.
Tick ==
    /\ now < MaxTime
    /\ now' = now + 1
    /\ rl' = [c \in Clients |->
                IF rl[c].count > 0 /\ rl[c].expiry <= now + 1 THEN NoKey ELSE rl[c]]
    /\ store' = [i \in Ids |->
                   IF store[i].w # "none" /\ store[i].expiry <= now + 1
                   THEN NoEntry ELSE store[i]]
    /\ last' = NoLast
    /\ slast' = NoSLast
    /\ UNCHANGED <<redisUp, cache, pc, rq, hist, spc, srq, cmVars>>

\* The backend becomes unreachable or reachable again.
BackendFlip ==
    /\ redisUp' = ~redisUp
    /\ last' = NoLast
    /\ slast' = NoSLast
    /\ UNCHANGED <<now, rl, cache, pc, rq, hist, store, spc, srq, cmVars>>

\* Concurrent requests of one client against a backend that may fail.
Next ==
    \/ \E p \in Procs, path \in HealthPaths : MwHealth(p, path)
    \/ \E p \in Procs : MwBegin(p, Observed)
    \/ \E p \in Procs : Connect(p)
    \/ \E p \in Procs : Execute(p)
    \/ \E p \in Procs : Resume(p)
    \/ Tick
    \/ BackendFlip

Spec == Init /\ [][Next]_vars

\* Consecutive requests of several clients, which fill and clear the cache.
NextClients ==
    \/ \E c \in Clients : MwBegin("p1", c)
    \/ Connect("p1")
    \/ Execute("p1")
    \/ Resume("p1")
    \/ Tick

SpecClients == Init /\ [][NextClients]_vars

\* One coroutine at a time on the conversation store, with corrupt values
\* and a backend that may fail.
SaveIds == {"x", "y"}
ExternalIds == {"z"}

NextStore ==
    \/ \E id \in SaveIds : \E raw \in RawConversations(id) : SaveBegin("p1", id, raw)
    \/ SaveStamp("p1")
    \/ SaveApply("p1")
    \/ \E id \in Ids : Get("p1", id)
    \/ \E id \in Ids : Delete("p1", id)
    \/ DeleteAllKeys("p1")
    \/ DeleteAllApply("p1")
    \/ ListKeys("p1")
    \/ ListFetch("p1")
    \/ \E id \in ExternalIds : \E v \in ExternalValues(id) : ExternalWrite(id, v)
    \/ Tick
    \/ BackendFlip

SpecStore == Init /\ [][NextStore]_vars

\* Concurrent saves of one conversation.
NextSaves ==
    \/ \E p \in Procs : SaveBegin(p, "x", Conv("x", List(<<mFull>>), Iso(0)))
    \/ \E p \in Procs : SaveStamp(p)
    \/ \E p \in Procs : SaveApply(p)
    \/ Tick

SpecSaves == Init /\ [][NextSaves]_vars

\* Concurrent chat turns, new conversations and turns on stored ones.
NextChat ==
    \/ \E p \in Procs, cid \in ChatIds \cup {NoId}, text \in Texts, generated \in BOOLEAN :
         ChatBegin(p, cid, text, generated)
    \/ \E p \in Procs : SaveStamp(p)
    \/ \E p \in Procs : SaveApply(p)
    \/ Tick
    \/ BackendFlip

SpecChat == Init /\ [][NextChat]_vars

\* Concurrent acquires, teardown and rebuild of the pool.  An awaited ping
\* is answered or times out and a backoff sleep ends, so both steps of a
\* call are taken once they can be.
NextPool ==
    \/ \E p \in Procs : AcquireBegin(p)
    \/ \E p \in Procs : AcquirePing(p)
    \/ \E p \in Procs : AcquireRetry(p)
    \/ CloseBegin
    \/ CloseEnd
    \/ EnvChange
    \/ PoolBackendFlip

SpecPool ==
    /\ Init /\ [][NextPool]_vars
    /\ \A p \in Procs : WF_vars(AcquirePing(p)) /\ WF_vars(AcquireRetry(p))

\* ------------------------------------------------------------------------
\* Claims about the rate limiter
\* ------------------------------------------------------------------------
Answered == last.client = Observed /\ last.res.src \in {"cache", "backend"}

\* C1: in a window that opened with no backend counter and an empty cache,
\* after MAX_REQUESTS_PER_WINDOW consecutive checks of the client the next
\* check in the window is denied with resetSeconds > 0.
C1_NextCheckDenied ==
    (Answered /\ last.callNo = MAX_REQUESTS_PER_WINDOW + 1)
        => (~last.res.allowed /\ last.res.reset > 0)

\* C2: the first MAX_REQUESTS_PER_WINDOW consecutive checks of such a window
\* are all allowed, whether the backend or the cache answers them.
C2_FirstChecksAllowed ==
    (last.client = Observed /\ last.callNo \in 1..MAX_REQUESTS_PER_WINDOW)
        => last.res.allowed

C2_Witness ==
    /\ Answered /\ last.callNo = MAX_REQUESTS_PER_WINDOW
    /\ last.res.src = "backend" /\ last.res.remaining = 0 /\ last.res.allowed

\* C3: after the client was denied in its window, the first check made once
\* RATE_LIMIT_WINDOW seconds have passed since the window's first check is
\* allowed and reports remaining = limit - 1.
C3_AllowedAfterWindow ==
    (Answered /\ last.afterDenied)
        => (last.res.allowed /\ last.res.remaining = MAX_REQUESTS_PER_WINDOW - 1)

\* C4 (as claimed): whenever the backend is unreachable when check is called,
\* whatever the cache holds, the answer is allowed with the full limit.
C4_FailOpenWhateverCache ==
    (last.client # NoClient /\ last.down)
        => (last.res.allowed /\ last.res.remaining = MAX_REQUESTS_PER_WINDOW)

\* C4 (amended): whenever the backend is unreachable and the check is not
\* answered from a live cache entry, the answer is allowed with the full limit.
C4_FailOpenPastCache ==
    (last.client # NoClient /\ last.down /\ last.res.src # "cache")
        => (last.res.allowed /\ last.res.remaining = MAX_REQUESTS_PER_WINDOW)

C4_Witness ==
    /\ last.client = Observed /\ last.down /\ last.res.src = "failopen"
    /\ rl[Observed].count > 0 /\ Observed \in DOMAIN cache

\* C5: a failure inside check (connection acquisition or pipeline) is never
\* propagated: check answers with a triple and the middleware forwards the
\* request to the downstream handler.
C5_FailureNotPropagated ==
    (last.exc # "none")
        => (last.res.src # "raised" /\ last.res.allowed /\ last.calls >= 1
            /\ last.out # "429")

C5_Witness ==
    /\ last.exc = "TimeoutError" /\ last.res.src = "failopen"
    /\ last.calls = 1 /\ last.out = "200"

\* C6: with at most one check in flight at any time, the backend counter of
\* a client never exceeds the limit by more than one.
C6_CounterBounded ==
    rl[Observed].count <= MAX_REQUESTS_PER_WINDOW + 1

\* ------------------------------------------------------------------------
\* Claims about the conversation store
\* ------------------------------------------------------------------------
\* A valid conversation in the sense of the round-trip property: all five
\* required fields, messages a list of records.
ValidConversation(raw) ==
    /\ RequiredFields \subseteq DOMAIN raw
    /\ raw.messages.ty = "list"
    /\ \A i \in 1..Len(raw.messages.items) : raw.messages.items[i].kind = "dict"

\* The record the round trip is to return for raw, saved at stampAt and
\* normalized at sanAt: raw with updated_at refreshed and every message
\* replaced by its normalized form.
RoundTrip(raw, sanAt, stampAt) ==
    [raw EXCEPT
        !.updated_at = Iso(stampAt),
        !.messages = List([i \in 1..Len(raw.messages.items) |->
                              sanitize_message(raw.messages.items[i], sanAt)])]

SavedUpdatedAtMonotone ==
    \A id \in Ids :
        (store[id].by = "save" /\ store'[id].by = "save")
            => store'[id].d.updated_at.n >= store[id].d.updated_at.n

C8_UpdatedAtNeverDecreases == [][SavedUpdatedAtMonotone]_vars

\* Well-formed and malformed stored values in the sense of listing isolation.
ValidEntry(e) ==
    /\ e.w = "json" /\ e.ty = "dict"
    /\ RequiredFields \subseteq DOMAIN e.d
    /\ e.d.messages.ty = "list"
    /\ \A i \in 1..Len(e.d.messages.items) : e.d.messages.items[i].kind = "dict"
    /\ e.d.updated_at.ty = "str"

Listed == {slast.list[i].id : i \in 1..Len(slast.list)}

\* C9: when the namespace holds N valid records and one value that is not
\* JSON, get_conversations returns exactly the N valid records and does not
\* raise.
C9_ListingIsolation ==
    (/\ slast.op = "list" /\ slast.keys # {} /\ slast.keys = slast.seen
     /\ Cardinality({i \in slast.keys : store[i].w = "garbage"}) = 1
     /\ \A i \in slast.keys : store[i].w = "garbage" \/ ValidEntry(store[i]))
        => /\ slast.raised = "none"
           /\ Len(slast.list) = Cardinality(slast.keys) - 1
           /\ Listed = {i \in slast.keys : ValidEntry(store[i])}

C9_Witness ==
    /\ slast.op = "list" /\ slast.raised = "none" /\ slast.keys = slast.seen
    /\ slast.keys = Ids /\ store["z"].w = "garbage"
    /\ ValidEntry(store["x"]) /\ ValidEntry(store["y"])
    /\ Len(slast.list) = 2

\* C10: with the backend reachable, get_conversations completes without
\* raising whatever values sit under the conversation keys.
C10_ListingNeverAborts ==
    (slast.op = "list" /\ slast.keys # {}) => slast.raised = "none"

\* C11: when get_conversations returns, the records that survived the
\* per-record checks are all in the result and every two adjacent records
\* are in descending order of updated_at.
C11_ListSortedDescending ==
    (slast.op = "list" /\ slast.raised = "none" /\ slast.keys = slast.seen)
        => /\ Listed = {i \in slast.keys : Survives(store[i])}
           /\ Len(slast.list) = Cardinality(Listed)
           /\ \A i \in 1..(Len(slast.list) - 1) :
                 slast.list[i].updated_at.n >= slast.list[i + 1].updated_at.n

C11_Witness ==
    /\ slast.op = "list" /\ slast.raised = "none" /\ Len(slast.list) = 3
    /\ slast.list[1].updated_at.n > slast.list[3].updated_at.n

\* C12: with the backend reachable, get_conversation never raises because of
\* what the key holds: an absent key and a corrupt value (undecodable, not a
\* record, a record without a required field) both give None.
C12_GetNeverRaisesOnContent ==
    (slast.op = "get" /\ slast.cause \notin LibraryErrors)
        => /\ slast.raised = "none"
           /\ (~Survives(slast.entry) => ~slast.found)

\* C13: save_conversation of a conversation without one of the required
\* fields fails with the validation error kind, which the error middleware
\* does not answer as service unavailable (503).
C13_SaveValidationErrorKind ==
    (slast.op = "save" /\ slast.cause = "ValueError")
        => /\ slast.raised \in {"ValueError", "ValidationError"}
           /\ error_handler_middleware(slast.raised) # 503

\* C14 (as claimed): whenever save_conversation raises, every conversation
\* key has the value and the expiry it had before.
FailedSaveChangesNothing ==
    (slast'.op = "save" /\ slast'.raised # "none") => store' = store

C14_FailedSaveChangesNothing == [][FailedSaveChangesNothing]_vars

\* C14 (amended): a save that raises on a structural violation, an
\* unserialisable value or an unreachable backend changes no key; a save the
\* backend executed leaves the whole record with the full retention under its
\* own key and no other change, also when its reply is lost and it raises.
SaveAllOrNothing ==
    (slast'.op = "save" /\ (slast'.raised # "none" \/ slast'.applied))
        => /\ (slast'.cause \in {"ValueError", "TypeError", "ConnectionError"}
                  => ~slast'.applied)
           /\ (slast'.raised # "none" /\ slast'.applied
                  => slast'.cause = "TimeoutError")
           /\ IF slast'.applied
              THEN /\ store' = [store EXCEPT ![slast'.id] = slast'.entry]
                   /\ ValidEntry(slast'.entry)
                   /\ slast'.entry.expiry = now + RETENTION_TTL
              ELSE store' = store

C14_SaveAllOrNothing == [][SaveAllOrNothing]_vars

C14_Witness ==
    /\ slast.op = "save" /\ slast.raised = "RedisError"
    /\ slast.cause = "ConnectionError" /\ ~slast.applied
    /\ \E id \in Ids : store[id].by = "save" /\ store[id].expiry = now + 1

\* C15: delete_conversation returns True exactly when the key was present,
\* removes it and changes no other key; a second delete of the same id right
\* after it returns False and does not raise.
DeleteExact ==
    /\ (slast'.op = "delete" /\ slast'.raised = "none")
          => /\ slast'.found = (store[slast'.id].w # "none")
             /\ store' = [store EXCEPT ![slast'.id] = NoEntry]
    /\ (/\ slast.op = "delete" /\ slast.raised = "none"
        /\ slast'.op = "delete" /\ slast'.id = slast.id)
          => (slast'.raised = "none" /\ ~slast'.found)

C15_DeleteExact == [][DeleteExact]_vars

C15_Witness ==
    /\ slast.op = "delete" /\ slast.raised = "none" /\ slast.found
    /\ store[slast.id] = NoEntry
    /\ \A i \in Ids \ {slast.id} : store[i].w # "none"

\* C16: delete_all_conversations returns the number of keys it removed and
\* leaves none of the keys it enumerated (0 and no change on an empty
\* namespace); when no key was written during the call the namespace is
\* empty afterwards and a listing made right after it returns no record.
DeleteAllExact ==
    /\ (slast'.op = "deleteall" /\ slast'.raised = "none")
          => /\ slast'.n = Cardinality({i \in Ids : store[i].w # "none"
                                                    /\ store'[i].w = "none"})
             /\ \A i \in Ids : store'[i] = IF i \in slast'.keys THEN NoEntry
                                           ELSE store[i]
             /\ (\A i \in Ids : store[i].w = "none") => slast'.n = 0
             /\ slast'.seen \subseteq slast'.keys
                   => \A i \in Ids : store'[i].w = "none"
    /\ (/\ slast.op = "deleteall" /\ slast.raised = "none"
        /\ slast.seen \subseteq slast.keys
        /\ slast'.op = "list")
          => (slast'.raised = "none" /\ slast'.list = <<>>)

C16_DeleteAllExact == [][DeleteAllExact]_vars

C16_Witness ==
    /\ slast.op = "deleteall" /\ slast.raised = "none" /\ slast.n = 3
    /\ \A i \in Ids : store[i].w = "none"

\* C17: every save the backend executed leaves its key with exactly the
\* retention TTL from that moment; get_conversation and get_conversations
\* change no key's expiry; a record that get or a listing returns was saved
\* less than the retention TTL ago.
RetentionOnWrite ==
    /\ (slast'.op = "save" /\ slast'.raised = "none")
          => /\ slast'.applied
             /\ store'[slast'.id].expiry - now = RETENTION_TTL
    /\ (\/ slast'.op \in {"get", "list"}
        \/ \E p \in Procs : spc[p] = "idle" /\ spc'[p] = "l_fetch")
          => store' = store
    /\ (slast'.op = "get" /\ slast'.found)
          => now - (slast'.entry.expiry - RETENTION_TTL) < RETENTION_TTL
    /\ (slast'.op = "list" /\ slast'.raised = "none")
          => \A i \in 1..Len(slast'.list) :
                now - (store[slast'.list[i].id].expiry - RETENTION_TTL) < RETENTION_TTL

C17_RetentionOnWrite == [][RetentionOnWrite]_vars

C17_Witness ==
    /\ slast.op = "get" /\ slast.found /\ slast.entry.by = "save"
    /\ now >= RETENTION_TTL /\ now = slast.entry.expiry - 1

\* The roles of a valid message.
Roles == {Str("user"), Str("assistant"), Str("system")}

\* C18: every message sanitize_message produced has a role among user,
\* assistant and system, a string content and a timestamp; the empty record
\* becomes role system, content "", timestamp the time of normalization.
C18_MessagesValid ==
    \A p \in Procs :
        srq[p].op = "save"
            => \A i \in 1..Len(srq[p].conv.messages.items) :
                  LET msg == srq[p].conv.messages.items[i].d
                  IN  /\ msg.role \in Roles
                      /\ msg.content.ty = "str"
                      /\ "timestamp" \in DOMAIN msg
                      /\ (srq[p].raw.messages = List(<<NotADict, mBare>>)
                            => msg = [role |-> Str("system"), content |-> Str(""),
                                      timestamp |-> Iso(srq[p].sanAt)])

\* ------------------------------------------------------------------------
\* Claims about the connection manager
\* ------------------------------------------------------------------------
\* What an acquire may end with when errs are the errors it may surface once
\* its tries are used up: a client whose ping succeeded; one of errs after at
\* most max_tries tries, each with one ping; or the configuration error,
\* raised by the call of the body that met it, without a ping.
AcquireOutcome(errs) ==
    /\ \A p \in Procs : arq[p].tries <= max_tries
    /\ alast.op = "acquire"
          => /\ alast.tries \in 1..max_tries
             /\ alast.raised \in {"none", "ValueError"} \cup errs
             /\ alast.raised = "none"
                   => (alast.probe = "ok" /\ alast.pool # 0
                       /\ alast.probes = alast.tries)
             /\ alast.raised \in LibraryErrors
                   => (alast.probe = alast.raised /\ alast.probes = alast.tries)
             /\ alast.raised = "ValueError"
                   => (alast.probe = "none" /\ alast.probes = alast.tries - 1)

AcquireTerminates ==
    \A p \in Procs : (apc[p] # "idle") ~> (apc[p] = "idle")

\* C19 (as claimed): an acquire returns a client only after its ping
\* succeeded, makes at most max_tries tries and, when they all fail, raises
\* ConnectionError; a configuration error ends it at once.
C19_AcquireFailsWithConnectionError == AcquireOutcome({"ConnectionError"})

\* C19 (amended): as above, but the error raised when the tries are used up
\* is the one of the last ping, ConnectionError or TimeoutError; and every
\* acquire that was begun ends.
C19_AcquireBoundedAndLive == []AcquireOutcome(LibraryErrors) /\ AcquireTerminates

C19_Witness ==
    /\ alast.op = "acquire" /\ alast.raised = "TimeoutError"
    /\ alast.tries = max_tries /\ alast.probes = max_tries

\* C20: a pool is constructed only by a call of get_redis_connection that
\* finds the reference None; every client made since the reference was last
\* cleared is on the one pool the reference holds; close_redis_pool
\* disconnects that pool and clears the reference, after which the next
\* acquire constructs a pool never used before; without a pool
\* close_redis_pool changes nothing.
PoolLifecycle ==
    /\ pools'.made # pools.made
          => /\ redis_pool = 0
             /\ pools'.made = pools.made + 1 /\ redis_pool' = pools'.made
             /\ \E p \in Procs : apc[p] # "ping" /\ apc'[p] = "ping"
    /\ Cardinality(pools'.bound) <= 1
    /\ \A p \in Procs :
          (apc[p] # "ping" /\ apc'[p] = "ping")
             => /\ arq'[p].pool = redis_pool' /\ pools'.bound = {redis_pool'}
                /\ IF redis_pool # 0 THEN redis_pool' = redis_pool
                   ELSE /\ redis_pool' = pools.made + 1
                        /\ redis_pool' \notin pools.disconnected
    /\ (alast'.op = "close" /\ alast'.pool # 0)
          => /\ alast'.pool = redis_pool /\ redis_pool' = 0
             /\ alast'.pool \in pools'.disconnected
    /\ (alast'.op = "close" /\ alast'.pool = 0)
          => (redis_pool = 0 /\ redis_pool' = 0 /\ pools' = pools)
    /\ \A k \in 1..pools'.made : k = redis_pool' \/ k \in pools'.disconnected

C20_PoolLifecycle == [][PoolLifecycle]_vars

C20_Witness ==
    /\ redis_pool = 2 /\ 1 \in pools.disconnected
    /\ \A p \in Procs : apc[p] = "ping" /\ arq[p].pool = 2

\* ------------------------------------------------------------------------
\* Further claims about the rate limiter
\* ------------------------------------------------------------------------
\* C21: the checks of one client answered allowed within one window, over
\* all instances, number at most Instances times the limit.
C21_AllowedPerWindowBounded ==
    (Answered /\ last.res.allowed /\ ~hist.denied /\ last.callNo >= 1)
        => last.callNo <= Instances * MAX_REQUESTS_PER_WINDOW

\* C22: a request on a limited path reaches the downstream handler only
\* after check_rate_limit has answered it allowed; a request answered
\* denied gets the 429 response and the handler is not called for it.
C22_AdmissionOrdering ==
    (last.path = LimitedPath)
        => /\ last.res.src \in {"cache", "backend", "failopen"}
           /\ last.calls >= 1 => last.res.allowed
           /\ ~last.res.allowed => (last.out = "429" /\ last.calls = 0)

C22_Witness ==
    /\ last.path = LimitedPath /\ last.res.src = "backend"
    /\ ~last.res.allowed /\ last.out = "429" /\ last.calls = 0

\* C24: a cache entry answers a check only at times before the time it was
\* written plus _cache_ttl.
CacheShortLived ==
    \A c \in Clients :
        (last'.client = c /\ last'.res.src = "cache" /\ c \in DOMAIN cache)
            => now < cache[c].at + _cache_ttl

C24_CacheShortLived == [][CacheShortLived]_vars

\* C25: the cache never holds more than CACHE_CLEAR_THRESHOLD entries; a
\* change of the cache is the write of one client's entry or, when that write
\* takes the size past the threshold, the emptying of the whole cache; no
\* single entry is ever removed.
CacheBounded ==
    /\ Cardinality(DOMAIN cache') <= CACHE_CLEAR_THRESHOLD
    /\ cache' # cache
          => \E c \in Clients :
                /\ last'.client = c /\ last'.res.src = "backend"
                /\ IF Cardinality(DOMAIN cache \cup {c}) > CACHE_CLEAR_THRESHOLD
                   THEN cache' = <<>>
                   ELSE /\ DOMAIN cache' = DOMAIN cache \cup {c}
                        /\ \A k \in DOMAIN cache \ {c} : cache'[k] = cache[k]
                        /\ cache'[c].count = MAX_REQUESTS_PER_WINDOW - last'.res.remaining

C25_CacheBounded == [][CacheBounded]_vars

C25_Witness ==
    /\ last.client = "B" /\ last.res.src = "backend" /\ cache = <<>>
    /\ rl["A"].count > 0 /\ rl["B"].count > 0

\* C26: each check of the client inside its window adds one to the backend
\* counter, and the counter the window's first check created is gone once
\* RATE_LIMIT_WINDOW seconds have passed since that check.
C26_CountedAndEndsWithWindow ==
    /\ (/\ Answered /\ last.callNo \in 1..(MAX_REQUESTS_PER_WINDOW + 1)
        /\ now < hist.start + RATE_LIMIT_WINDOW)
          => rl[Observed].count = last.callNo
    /\ rl[Observed].count > 0 => now < rl[Observed].born + RATE_LIMIT_WINDOW

\* C27: every existing counter has an expiry, ahead by at most
\* RATE_LIMIT_WINDOW seconds, whatever checks are under way or have failed.
C27_CounterHasExpiry ==
    \A c \in Clients :
        rl[c].count > 0
            => (now < rl[c].expiry /\ rl[c].expiry - now <= RATE_LIMIT_WINDOW)

C27_Witness ==
    /\ rl[Observed].count > 1 /\ ~redisUp
    /\ \E p, q \in Procs :
          /\ pc[p] = "reply" /\ rq[p].exc = "TimeoutError"
          /\ pc[q] = "reply" /\ rq[q].exc = "ConnectionError"

\* C28: a denied check reports a resetSeconds that covers the remaining
\* lifetime of the client's counter, so that the counter is gone once the
\* client has waited that long.
C28_RetryAfterHonest ==
    (Answered /\ ~last.res.allowed)
        => last.res.reset >= RedisTTL(Observed)

\* C30: the resetSeconds of every answer of check_rate_limit is at least 0.
C30_ResetNeverNegative ==
    (last.client # NoClient) => last.res.reset >= 0

\* ------------------------------------------------------------------------
\* Further claims about the conversation store and its endpoints
\* ------------------------------------------------------------------------
\* C23 (as claimed): save_conversation of a conversation without an id
\* succeeds and stores it under a key.
C23_SaveCreatesId ==
    (slast.op = "save" /\ slast.conv # <<>> /\ "id" \notin DOMAIN slast.conv)
        => (slast.raised = "none" /\ slast.applied)

\* C23 (amended): save_conversation of a conversation without an id raises
\* and changes no key; a save the backend executed stored the record under
\* the key of the id it was given, and the record under a key always carries
\* that key's id.
SaveKeepsGivenId ==
    /\ (slast'.op = "save" /\ slast'.conv # <<>> /\ "id" \notin DOMAIN slast'.conv)
          => /\ slast'.raised = "RedisError" /\ slast'.cause = "ValueError"
             /\ ~slast'.applied /\ store' = store
    /\ (slast'.op = "save" /\ slast'.applied)
          => /\ "id" \in DOMAIN slast'.entry.raw
             /\ slast'.entry.raw.id = slast'.id
             /\ store'[slast'.id].d.id = slast'.id
    /\ \A i \in Ids : store'[i].by = "save" => store'[i].d.id = i

C23_SaveKeepsGivenId == [][SaveKeepsGivenId]_vars

C23_Witness ==
    /\ slast.op = "save" /\ slast.raised = "RedisError"
    /\ slast.conv # <<>> /\ "id" \notin DOMAIN slast.conv
    /\ "title" \in DOMAIN slast.conv
    /\ store["x"].by = "save" /\ redisUp

\* C29: with the backend reachable, GET and DELETE of a conversation id
\* under which nothing is stored are answered with status 404.
C29_AbsentIsNotFound ==
    /\ (slast.op = "get" /\ slast.raised = "none" /\ slast.entry.w = "none")
          => get_conversation_endpoint(slast) = 404
    /\ (slast.op = "delete" /\ slast.raised = "none" /\ ~slast.found)
          => delete_conversation_endpoint(slast) = 404


\* ------------------------------------------------------------------------
\* Further claims about the middleware and the chat endpoint
\* ------------------------------------------------------------------------
\* C31: the middleware hands each request to the downstream handler at most
\* once, also when the handler raises after being invoked.
C31_HandlerAtMostOnce ==
    last.calls <= 1


\* C32: every successful chat turn on a stored conversation leaves the
\* messages stored before its write in place and in order and appends
\* exactly its user message followed by its assistant message, whatever the
\* interleaving of the chat requests on the conversation id.
ChatAppendOnly ==
    \A p \in Procs :
        LET id == srq[p].id
            got == GetOutcome(id, srq[p].data, srq[p].sanAt)
            mine == srq[p].raw.messages.items
        IN  (/\ srq[p].op = "chat" /\ spc[p] = "s_setex" /\ spc'[p] = "idle"
             /\ srq[p].data.w = "json" /\ chat_endpoint(id, got) = 200
             /\ slast'.applied /\ store[id].w = "json")
                => /\ store'[id].w = "json"
                   /\ store'[id].d.messages.items
                        = store[id].d.messages.items
                            \o SubSeq(mine, Len(mine) - 1, Len(mine))
                   /\ mine[Len(mine) - 1].d.role = Str("user")
                   /\ mine[Len(mine)].d.role = Str("assistant")

C32_ChatAppendOnly == [][ChatAppendOnly]_vars

====
